---- MODULE Spec2Model ----
(***************************************************************************)
(* Mines wagering game of app.py: the round state kept in the session, the *)
(* balance kept in database.json, and the three game requests start,       *)
(* reveal and cashout.                                                     *)
(***************************************************************************)
EXTENDS Integers, Sequences, FiniteSets, TLC

(***************************************************************************)
(* Binary floating point (Python float, IEEE-754 double).                  *)
(* A non-negative float is [ip |-> integer part, fr |-> fraction bits],    *)
(* fr[i] weighing 2^-i, without trailing zero bits.  Every operation       *)
(* computes the exact result and rounds it to MantissaBits significant     *)
(* bits, ties to even.                                                     *)
(***************************************************************************)
MantissaBits == 53

Max(S) == CHOOSE x \in S : \A y \in S : y <= x

Min(S) == CHOOSE x \in S : \A y \in S : x <= y

\* number of bits of the integer n, 0 <= n < 2^30
BitLen(n) ==
    CHOOSE k \in 0..30 : \/ k = 0 /\ n = 0
                         \/ k > 0 /\ 2^(k - 1) <= n /\ n < 2^k

Ones(fr) == {i \in 1..Len(fr) : fr[i] = 1}

StripZeros(fr) ==
    LET ones == Ones(fr) IN
    IF ones = {} THEN <<>> ELSE SubSeq(fr, 1, Max(ones))

LeadingZeros(fr) ==
    LET ones == Ones(fr) IN
    IF ones = {} THEN Len(fr) ELSE Min(ones) - 1

Float(ip, fr) == [ip |-> ip, fr |-> StripZeros(fr)]

FloatOfInt(n) == Float(n, <<>>)

\* adds one unit in the last place of fr; c is the carry into the integer part
IncBits(fr) ==
    LET zeros == {i \in 1..Len(fr) : fr[i] = 0} IN
    IF zeros = {} THEN [c |-> 1, fr |-> [i \in 1..Len(fr) |-> 0]]
    ELSE LET z == Max(zeros) IN
         [c |-> 0,
          fr |-> [i \in 1..Len(fr) |->
                     IF i < z THEN fr[i] ELSE IF i = z THEN 1 ELSE 0]]

\* round-half-even of ip.fr (plus a non-zero tail when sticky) to a double
RoundNearestEven(ip, fr, sticky) ==
    LET keep == IF ip > 0 THEN MantissaBits - BitLen(ip)
                ELSE LeadingZeros(fr) + MantissaBits
    IN  IF Len(fr) <= keep THEN Float(ip, fr)
        ELSE LET head  == SubSeq(fr, 1, keep)
                 guard == fr[keep + 1]
                 rest  == sticky \/ \E i \in (keep + 2)..Len(fr) : fr[i] = 1
                 odd   == IF keep = 0 THEN ip % 2 = 1 ELSE head[keep] = 1
                 r     == IncBits(head)
             IN  IF guard = 1 /\ (rest \/ odd)
                 THEN Float(ip + r.c, r.fr)
                 ELSE Float(ip, head)

\* 2^i modulo b
RECURSIVE Pow2Mod(_, _)
Pow2Mod(i, b) ==
    IF i = 0 THEN 1 % b
    ELSE IF i % 2 = 0
         THEN LET h == Pow2Mod(i \div 2, b) IN (h * h) % b
         ELSE (2 * Pow2Mod(i - 1, b)) % b

\* the first n fraction bits of r / b (0 <= r < b) and the remainder left
DivBits(r, b, n) ==
    LET Rem(i) == (r * Pow2Mod(i, b)) % b IN
    [bits |-> [i \in 1..n |-> IF 2 * Rem(i - 1) >= b THEN 1 ELSE 0],
     rem  |-> Rem(n)]

\* a / b for integers a >= 0, b > 0 (true division); 64 quotient bits are
\* produced before rounding, what is left of the quotient is the sticky bit
FDiv(a, b) ==
    LET d == DivBits(a % b, b, 64) IN
    RoundNearestEven(a \div b, d.bits, d.rem # 0)

RECURSIVE BitsToInt(_)
BitsToInt(bs) ==
    IF bs = <<>> THEN 0
    ELSE 2 * BitsToInt(SubSeq(bs, 1, Len(bs) - 1)) + bs[Len(bs)]

\* limbs * n, the limbs being digits in base 2^w, least significant last
RECURSIVE MulLimbs(_, _, _, _, _, _)
MulLimbs(limbs, n, w, i, carry, acc) ==
    IF i = 0 THEN [c |-> carry, limbs |-> acc]
    ELSE LET v == limbs[i] * n + carry IN
         MulLimbs(limbs, n, w, i - 1, v \div 2^w, <<v % 2^w>> \o acc)

\* fr * n exactly: the fraction bits and the carry into the integer part
MulBits(fr, n) ==
    LET w      == 13
        q      == (Len(fr) + w - 1) \div w
        bit(i) == IF i <= Len(fr) THEN fr[i] ELSE 0
        limbs  == [l \in 1..q |->
                     BitsToInt([o \in 1..w |-> bit((l - 1) * w + o)])]
        p      == MulLimbs(limbs, n, w, q, 0, <<>>)
    IN  [c    |-> p.c,
         bits |-> [i \in 1..(q * w) |->
                     (p.limbs[(i - 1) \div w + 1]
                        \div 2^(w - 1 - ((i - 1) % w))) % 2]]

\* x * n for a float x and an integer n >= 0
FMulInt(x, n) ==
    LET p == MulBits(x.fr, n) IN
    RoundNearestEven(x.ip * n + p.c, p.bits, FALSE)

\* n + x for a float x and an integer n >= 0
FAddInt(n, x) == RoundNearestEven(x.ip + n, x.fr, FALSE)

\* int(x) for a float x >= 0
FTrunc(x) == x.ip

(***************************************************************************)
(* Program constants and the bounds of the exploration.                    *)
(***************************************************************************)
GridSize == 25

InitialBalance == 1000

\* largest ordinary stake requested
MaxBet == 3

\* rounds are requested with mines_count 0, 1 and GridSize - MaxSafe .. GridSize
MaxSafe == 3

\* random.sample is explored for the layouts starting at offsets 0 .. MaxOffset
MaxOffset == 1

\* tiles 0 .. MaxPos are requested, and the two positions just off the grid
MaxPos == 1

\* rounds are started while the balance is within MaxDrift of InitialBalance
\* (or, for a user who is nearly out of money, while it is at most MaxBet)
MaxDrift == 1
MaxWorkerDrift == 3

Users == {"u1", "u2"}

BetInputs == (0..MaxBet) \cup {InitialBalance + 1}

MinesInputs == {0, 1} \cup ((GridSize - MaxSafe)..GridSize)

PositionInputs == (-1..MaxPos) \cup {GridSize}

\* the balances explored: near InitialBalance, and the stakes near zero
InPlay(balance) ==
    \/ /\ balance >= InitialBalance - MaxDrift
       /\ balance <= InitialBalance + MaxDrift
    \/ /\ balance >= 0
       /\ balance <= MaxBet

Range(seq) == {seq[i] : i \in 1..Len(seq)}

(***************************************************************************)
(* The game logic of the three handlers, as functions of what they read.   *)
(***************************************************************************)

\* sampling with replacement, as random.choices would
RandomSampleWithReplacement(n, k) ==
    {[i \in 1..k |-> (s + (i - 1) \div 2) % n] : s \in 0..MaxOffset}

\* random.sample(range(n), k): the layouts explored
RandomSample(n, k) ==
    {[i \in 1..k |-> (s + i - 1) % n] : s \in 0..MaxOffset}

\* the checks with the stake tested before the mines count
StartErrorBetFirst(bet_amount, mines_count, user_balance) ==
    IF bet_amount <= 0 THEN "Invalid bet amount"
    ELSE IF mines_count < 1 \/ mines_count > 24 THEN "Invalid mines count"
    ELSE IF user_balance < bet_amount THEN "Insufficient balance"
    ELSE ""

\* the checks without the test of the balance
StartErrorSkipsBalance(bet_amount, mines_count, user_balance) ==
    IF mines_count < 1 \/ mines_count > 24 THEN "Invalid mines count"
    ELSE IF bet_amount <= 0 THEN "Invalid bet amount"
    ELSE ""

\* the checks of start_mines_game, in the order the handler makes them
StartError(bet_amount, mines_count, user_balance) ==
    IF mines_count < 1 \/ mines_count > 24 THEN "Invalid mines count"
    ELSE IF bet_amount <= 0 THEN "Invalid bet amount"
    ELSE IF user_balance < bet_amount THEN "Insufficient balance"
    ELSE ""

\* the fresh round with its multiplier at 0.0
NewGameStateZeroMultiplier(mines_positions, bet_amount, mines_count) ==
    [mines_positions    |-> mines_positions,
     bet_amount         |-> bet_amount,
     mines_count        |-> mines_count,
     revealed_positions |-> <<>>,
     active             |-> TRUE,
     won                |-> FALSE,
     multiplier         |-> FloatOfInt(0)]

NewGameState(mines_positions, bet_amount, mines_count) ==
    [mines_positions    |-> mines_positions,
     bet_amount         |-> bet_amount,
     mines_count        |-> mines_count,
     revealed_positions |-> <<>>,
     active             |-> TRUE,
     won                |-> FALSE,
     multiplier         |-> FloatOfInt(1)]

\* the check without its test of 'active'
NoActiveGameIgnoresActive(ses) == ses = <<>>

\* ses is the session: <<>> without 'game_state', else <<game_state>>
NoActiveGame(ses) == ses = <<>> \/ ~ses[1].active

\* the checks without the test of revealed_positions
RevealErrorSkipsRevealed(ses, position) ==
    IF position < 0 \/ position >= 25 THEN "Invalid position"
    ELSE IF NoActiveGame(ses) THEN "No active game"
    ELSE ""

\* the checks with the round tested before the position
RevealErrorActiveFirst(ses, position) ==
    IF NoActiveGame(ses) THEN "No active game"
    ELSE IF position < 0 \/ position >= 25 THEN "Invalid position"
    ELSE IF position \in Range(ses[1].revealed_positions)
         THEN "Tile already revealed"
    ELSE ""

\* the checks of reveal_tile, in the order the handler makes them
RevealError(ses, position) ==
    IF position < 0 \/ position >= 25 THEN "Invalid position"
    ELSE IF NoActiveGame(ses) THEN "No active game"
    ELSE IF position \in Range(ses[1].revealed_positions)
         THEN "Tile already revealed"
    ELSE ""

\* the mine test that never finds a mine
IsMineNever(game_state, position) == FALSE

IsMine(game_state, position) == position \in Range(game_state.mines_positions)

\* the formula with the product in the divisor
MultiplierDividesByMines(revealed_count, safe_tiles, mines_count) ==
    FAddInt(1, FDiv(revealed_count, safe_tiles * mines_count))

\* multiplier = 1 + (revealed_count / safe_tiles) * mines_count
Multiplier(revealed_count, safe_tiles, mines_count) ==
    FAddInt(1, FMulInt(FDiv(revealed_count, safe_tiles), mines_count))

\* int(bet_amount * multiplier)
Winnings(bet_amount, multiplier) == FTrunc(FMulInt(multiplier, bet_amount))

\* the mine branch without the reset of 'active'
MineHitStaysActive(game_state) == [game_state EXCEPT !.won = FALSE]

MineHit(game_state) == [game_state EXCEPT !.active = FALSE, !.won = FALSE]

\* the multiplier computed from the count before the tile is appended
SafeRevealStaleCount(game_state, position) ==
    LET revealed      == Append(game_state.revealed_positions, position)
        safe_tiles    == 25 - game_state.mines_count
        multiplier    == Multiplier(Len(game_state.revealed_positions),
                                    safe_tiles, game_state.mines_count)
        cleared       == Len(revealed) = safe_tiles
    IN  [game_state EXCEPT !.revealed_positions = revealed,
                           !.multiplier = multiplier,
                           !.active = IF cleared THEN FALSE ELSE @,
                           !.won = IF cleared THEN TRUE ELSE @]

\* the game state after a safe tile is revealed
SafeReveal(game_state, position) ==
    LET revealed      == Append(game_state.revealed_positions, position)
        safe_tiles    == 25 - game_state.mines_count
        revealed_count == Len(revealed)
        multiplier    == Multiplier(revealed_count, safe_tiles,
                                    game_state.mines_count)
        cleared       == revealed_count = safe_tiles
    IN  [game_state EXCEPT !.revealed_positions = revealed,
                           !.multiplier = multiplier,
                           !.active = IF cleared THEN FALSE ELSE @,
                           !.won = IF cleared THEN TRUE ELSE @]

AllRevealed(game_state) ==
    Len(game_state.revealed_positions) = 25 - game_state.mines_count

CashedOut(game_state) == [game_state EXCEPT !.active = FALSE, !.won = TRUE]

(***************************************************************************)
(* State.                                                                  *)
(***************************************************************************)
VARIABLES
    db,       \* database.json: the balance of every user
    session,  \* the session of every user: <<>> or <<game_state>>
    resp,     \* the last response sent
    req       \* the requests being handled, one per worker

vars == <<db, session, resp, req>>

NoResponse == [op |-> "none", code |-> 0, error |-> "", game_over |-> FALSE,
               won |-> FALSE, winnings |-> 0, potential_win |-> 0]

ErrorResponse(op, error) ==
    [NoResponse EXCEPT !.op = op, !.code = 400, !.error = error]

Success(op) == [NoResponse EXCEPT !.op = op, !.code = 200]

Procs == {"p1", "p2"}

\* a worker: where its handler stands (pc), the request, the session it
\* loaded (ses), the database it loaded (db: <<>> before load_db) and the
\* response it sent (out)
IdleRequest ==
    [pc |-> "idle", op |-> "none", user |-> "u1", bet_amount |-> 0,
     mines_count |-> 0, position |-> 0, ses |-> <<>>, db |-> <<>>,
     out |-> NoResponse]

Init ==
    /\ db = [u \in Users |-> InitialBalance]
    /\ session = [u \in Users |-> <<>>]
    /\ resp = NoResponse
    /\ req = [p \in Procs |-> IdleRequest]

(***************************************************************************)
(* The handlers, one request at a time.                                    *)
(***************************************************************************)
StartMinesGame(u, bet_amount, mines_count) ==
    LET error == StartError(bet_amount, mines_count, db[u]) IN
    IF error # ""
    THEN /\ resp' = ErrorResponse("start", error)
         /\ UNCHANGED <<db, session>>
    ELSE /\ InPlay(db[u])
         /\ resp' = Success("start")
         /\ db' = [db EXCEPT ![u] = @ - bet_amount]
         /\ \E mines_positions \in RandomSample(GridSize, mines_count) :
               session' = [session EXCEPT ![u] =
                   <<NewGameState(mines_positions, bet_amount, mines_count)>>]

RevealTile(u, position) ==
    LET error == RevealError(session[u], position)
        game_state == session[u][1]
    IN  IF error # ""
        THEN /\ resp' = ErrorResponse("reveal", error)
             /\ UNCHANGED <<db, session>>
        ELSE IF IsMine(game_state, position)
        THEN /\ session' = [session EXCEPT ![u] = <<MineHit(game_state)>>]
             /\ resp' = [Success("reveal") EXCEPT !.game_over = TRUE]
             /\ UNCHANGED db
        ELSE LET new == SafeReveal(game_state, position)
                 pay == Winnings(new.bet_amount, new.multiplier)
             IN  /\ session' = [session EXCEPT ![u] = <<new>>]
                 /\ IF AllRevealed(new)
                    THEN /\ db' = [db EXCEPT ![u] = @ + pay]
                         /\ resp' = [Success("reveal") EXCEPT
                                        !.game_over = TRUE, !.won = TRUE,
                                        !.winnings = pay]
                    ELSE /\ db' = db
                         /\ resp' = [Success("reveal") EXCEPT
                                        !.potential_win = pay]

Cashout(u) ==
    IF NoActiveGame(session[u])
    THEN /\ resp' = ErrorResponse("cashout", "No active game")
         /\ UNCHANGED <<db, session>>
    ELSE LET game_state == session[u][1]
             winnings   == Winnings(game_state.bet_amount,
                                    game_state.multiplier)
         IN  /\ db' = [db EXCEPT ![u] = @ + winnings]
             /\ session' = [session EXCEPT ![u] = <<CashedOut(game_state)>>]
             /\ resp' = [Success("cashout") EXCEPT !.winnings = winnings]

\* /api/update_balance: adds the requested amount to the caller's balance
UpdateBalance(u, amount) ==
    /\ InPlay(db[u])
    /\ db' = [db EXCEPT ![u] = @ + amount]
    /\ resp' = Success("update_balance")
    /\ UNCHANGED session

Start ==
    /\ \E bet_amount \in BetInputs, mines_count \in MinesInputs :
          StartMinesGame("u1", bet_amount, mines_count)
    /\ UNCHANGED req

Reveal ==
    /\ \E position \in PositionInputs : RevealTile("u1", position)
    /\ UNCHANGED req

CashoutRequest ==
    /\ Cashout("u1")
    /\ UNCHANGED req

Next == Start \/ Reveal \/ CashoutRequest

Spec == Init /\ [][Next]_vars

(***************************************************************************)
(* The handlers step by step.  A handler runs from one access of the       *)
(* stored state to the next: the session is loaded when the request        *)
(* begins, load_db reads the whole file, save_db writes the whole file,    *)
(* and the session is stored with the response.                            *)
(***************************************************************************)
\* a worker takes a request while the user's balance is within MaxWorkerDrift
CanBegin(p, u) ==
    /\ req[p].pc \in {"idle", "done", "failed"}
    /\ db[u] >= InitialBalance - MaxWorkerDrift
    /\ db[u] <= InitialBalance + MaxWorkerDrift

\* the response is sent and the handler's locals are dropped
Finish(p, r, response) ==
    /\ req' = [req EXCEPT ![p] =
                  [IdleRequest EXCEPT !.pc = "done", !.op = r.op,
                                      !.user = r.user, !.out = response]]
    /\ resp' = response

Goto(p, r, pc) ==
    /\ req' = [req EXCEPT ![p] = [r EXCEPT !.pc = pc]]
    /\ resp' = resp

BeginStart(p, u, bet_amount, mines_count) ==
    LET r == [IdleRequest EXCEPT !.op = "start", !.user = u,
                                 !.bet_amount = bet_amount,
                                 !.mines_count = mines_count,
                                 !.ses = session[u]]
    IN  /\ CanBegin(p, u)
        /\ IF mines_count < 1 \/ mines_count > 24
           THEN Finish(p, r, ErrorResponse("start", "Invalid mines count"))
           ELSE Goto(p, r, "load_db")
        /\ UNCHANGED <<db, session>>

BeginReveal(p, u, position) ==
    LET r     == [IdleRequest EXCEPT !.op = "reveal", !.user = u,
                                     !.position = position,
                                     !.ses = session[u]]
        error == RevealError(session[u], position)
    IN  /\ CanBegin(p, u)
        /\ IF error # ""
           THEN Finish(p, r, ErrorResponse("reveal", error))
           ELSE IF /\ ~IsMine(session[u][1], position)
                   /\ AllRevealed(SafeReveal(session[u][1], position))
                THEN Goto(p, r, "load_db")
                ELSE Goto(p, r, "store")
        /\ UNCHANGED <<db, session>>

BeginCashout(p, u) ==
    LET r == [IdleRequest EXCEPT !.op = "cashout", !.user = u,
                                 !.ses = session[u]]
    IN  /\ CanBegin(p, u)
        /\ IF NoActiveGame(session[u])
           THEN Finish(p, r, ErrorResponse("cashout", "No active game"))
           ELSE Goto(p, r, "load_db")
        /\ UNCHANGED <<db, session>>

LoadDb(p) ==
    LET r     == req[p]
        error == StartError(r.bet_amount, r.mines_count, db[r.user])
    IN  /\ r.pc = "load_db"
        /\ IF r.op = "start" /\ error # ""
           THEN Finish(p, r, ErrorResponse("start", error))
           ELSE Goto(p, [r EXCEPT !.db = <<db>>], "save_db")
        /\ UNCHANGED <<db, session>>

\* the amount the handler adds to the balance it loaded
BalanceDelta(r) ==
    IF r.op = "start" THEN 0 - r.bet_amount
    ELSE IF r.op = "reveal"
         THEN LET new == SafeReveal(r.ses[1], r.position) IN
              Winnings(new.bet_amount, new.multiplier)
    ELSE Winnings(r.ses[1].bet_amount, r.ses[1].multiplier)

SaveDb(p) ==
    LET r == req[p] IN
    /\ r.pc = "save_db"
    /\ db' = [r.db[1] EXCEPT ![r.user] = @ + BalanceDelta(r)]
    /\ Goto(p, r, "store")
    /\ UNCHANGED session

StoreSession(p) ==
    LET r == req[p] IN
    /\ r.pc = "store"
    /\ IF r.op = "start"
       THEN /\ \E mines_positions \in RandomSample(GridSize, r.mines_count) :
                  session' = [session EXCEPT ![r.user] =
                      <<NewGameState(mines_positions, r.bet_amount,
                                     r.mines_count)>>]
            /\ Finish(p, r, Success("start"))
       ELSE IF r.op = "cashout"
       THEN /\ session' = [session EXCEPT ![r.user] = <<CashedOut(r.ses[1])>>]
            /\ Finish(p, r, [Success("cashout") EXCEPT
                                !.winnings = BalanceDelta(r)])
       ELSE IF IsMine(r.ses[1], r.position)
       THEN /\ session' = [session EXCEPT ![r.user] = <<MineHit(r.ses[1])>>]
            /\ Finish(p, r, [Success("reveal") EXCEPT !.game_over = TRUE])
       ELSE LET new == SafeReveal(r.ses[1], r.position)
                pay == Winnings(new.bet_amount, new.multiplier)
            IN  /\ session' = [session EXCEPT ![r.user] = <<new>>]
                /\ Finish(p, r,
                      IF AllRevealed(new)
                      THEN [Success("reveal") EXCEPT
                               !.game_over = TRUE, !.won = TRUE,
                               !.winnings = pay]
                      ELSE [Success("reveal") EXCEPT !.potential_win = pay])
    /\ UNCHANGED db

\* the handler stops before its next step: nothing more is written
Fail(p) ==
    LET r == req[p] IN
    /\ r.pc \in {"load_db", "save_db", "store"}
    /\ req' = [req EXCEPT ![p] = [r EXCEPT !.pc = "failed"]]
    /\ resp' = [NoResponse EXCEPT !.op = r.op, !.code = 500]
    /\ UNCHANGED <<db, session>>

(***************************************************************************)
(* One round of one user, then a reveal and a cashout handled together.    *)
(***************************************************************************)
RaceStart ==
    /\ session["u1"] = <<>>
    /\ Start

RaceReveal ==
    /\ session["u1"] # <<>>
    /\ req["p1"].pc = "idle"
    /\ \E position \in PositionInputs : BeginReveal("p1", "u1", position)

RaceCashout ==
    /\ session["u1"] # <<>>
    /\ req["p2"].pc = "idle"
    /\ BeginCashout("p2", "u1")

RaceLoadDb == \E p \in Procs : LoadDb(p)

RaceSaveDb == \E p \in Procs : SaveDb(p)

RaceStoreSession == \E p \in Procs : StoreSession(p)

NextRace ==
    \/ RaceStart
    \/ RaceReveal
    \/ RaceCashout
    \/ RaceLoadDb
    \/ RaceSaveDb
    \/ RaceStoreSession

SpecRace == Init /\ [][NextRace]_vars

(***************************************************************************)
(* Two users, each with one worker handling its requests step by step.     *)
(***************************************************************************)
UserOf(p) == IF p = "p1" THEN "u1" ELSE "u2"

UsersStart ==
    \E p \in Procs, mines_count \in {GridSize - 1, GridSize} :
       BeginStart(p, UserOf(p), MaxBet, mines_count)

UsersReveal == \E p \in Procs : BeginReveal(p, UserOf(p), 0)

UsersCashout == \E p \in Procs : BeginCashout(p, UserOf(p))

UsersLoadDb == \E p \in Procs : LoadDb(p)

UsersSaveDb == \E p \in Procs : SaveDb(p)

UsersStoreSession == \E p \in Procs : StoreSession(p)

NextUsers ==
    \/ UsersStart
    \/ UsersReveal
    \/ UsersCashout
    \/ UsersLoadDb
    \/ UsersSaveDb
    \/ UsersStoreSession

SpecUsers == Init /\ [][NextUsers]_vars

(***************************************************************************)
(* One user and one worker whose handler may stop at any step.             *)
(***************************************************************************)
FailStart ==
    \E mines_count \in {GridSize - 1, GridSize} :
       BeginStart("p1", "u1", MaxBet, mines_count)

FailReveal == \E position \in PositionInputs : BeginReveal("p1", "u1", position)

FailCashout == BeginCashout("p1", "u1")

NextFail ==
    \/ FailStart
    \/ FailReveal
    \/ FailCashout
    \/ LoadDb("p1")
    \/ SaveDb("p1")
    \/ StoreSession("p1")
    \/ Fail("p1")

SpecFail == Init /\ [][NextFail]_vars

(***************************************************************************)
(* The round statuses of the specification, read off the stored fields.    *)
(***************************************************************************)
Status(game_state) ==
    IF game_state.active THEN "Active"
    ELSE IF ~game_state.won THEN "Lost"
    ELSE IF AllRevealed(game_state) THEN "WonByClear"
    ELSE "CashedOut"

HasRound(u) == session[u] # <<>>

Round(u) == session[u][1]

IsActive(u) == HasRound(u) /\ Round(u).active

IsTerminal(u) == HasRound(u) /\ ~Round(u).active

Distinct(seq) == \A i, j \in 1..Len(seq) : i # j => seq[i] # seq[j]

\* floor(bet_amount * (1 + (k / safe) * mines_count)) in exact arithmetic
ExactPayout(bet_amount, k, mines_count) ==
    (bet_amount * ((25 - mines_count) + k * mines_count))
        \div (25 - mines_count)

\* what the stored round says was paid for it
Paid(game_state) ==
    IF Status(game_state) \in {"WonByClear", "CashedOut"}
    THEN Winnings(game_state.bet_amount, game_state.multiplier)
    ELSE 0

(***************************************************************************)
(* C1: when a reveal and a cashout of one user, handled together on the    *)
(* same round, have both been answered, at most one of them has ended the  *)
(* round, and the balance is the initial balance less the stake plus the   *)
(* one payout the stored round stands for.                                 *)
(***************************************************************************)
C1_OneResolution ==
    (req["p1"].pc = "done" /\ req["p2"].pc = "done")
    => /\ ~(req["p1"].out.game_over /\ req["p2"].out.code = 200)
       /\ db["u1"] = InitialBalance - Round("u1").bet_amount
                        + Paid(Round("u1"))

(***************************************************************************)
(* C3: no step of a request of one user changes the balance or the round   *)
(* of the other user.                                                      *)
(***************************************************************************)
C3_UsersIndependent ==
    [][\A p \in Procs :
          req'[p] # req[p]
          => \A u \in Users \ {UserOf(p)} :
                db'[u] = db[u] /\ session'[u] = session[u]]_vars

(***************************************************************************)
(* C4: when a request has stopped, its balance change is in the database   *)
(* exactly if its round is in the session.                                 *)
(***************************************************************************)
C4_AllOrNothing ==
    \A p \in Procs :
       req[p].pc = "failed"
       => LET r == req[p] IN
          (r.db # <<>> /\ db[r.user] # r.db[1][r.user])
             <=> (session[r.user] # r.ses)

(***************************************************************************)
(* C2: a start is rejected, and changes neither the stored round nor the   *)
(* balance, whenever the caller's round is Active.                         *)
(***************************************************************************)
C2_ActiveRoundBlocksStart ==
    [][(IsActive("u1") /\ resp'.op = "start")
       => \A bet_amount \in BetInputs, mines_count \in MinesInputs :
             StartMinesGame("u1", bet_amount, mines_count)
             => (resp'.code = 400 /\ session' = session /\ db' = db)]_vars

(***************************************************************************)
(* C5: a start with mines_count in 1..24 and 0 < bet_amount <= balance     *)
(* succeeds and stores an Active round with exactly mines_count distinct   *)
(* mine positions in 0..24, nothing revealed and multiplier 1.0, and       *)
(* deducts exactly bet_amount.                                             *)
(***************************************************************************)
C5_StartCreatesRound ==
    [][resp'.op = "start" =>
       \A bet_amount \in BetInputs, mines_count \in MinesInputs :
          (/\ mines_count \in 1..24
           /\ bet_amount > 0
           /\ bet_amount <= db["u1"]
           /\ StartMinesGame("u1", bet_amount, mines_count))
          => (/\ resp'.code = 200
              /\ session'["u1"] # <<>>
              /\ LET r == session'["u1"][1] IN
                 /\ Len(r.mines_positions) = mines_count
                 /\ Distinct(r.mines_positions)
                 /\ Range(r.mines_positions) \subseteq 0..24
                 /\ r.mines_count = mines_count
                 /\ r.bet_amount = bet_amount
                 /\ r.revealed_positions = <<>>
                 /\ r.multiplier = FloatOfInt(1)
                 /\ Status(r) = "Active"
              /\ db'["u1"] = db["u1"] - bet_amount)]_vars

C5_Witness ==
    /\ resp.op = "start" /\ resp.code = 200
    /\ IsActive("u1")
    /\ Round("u1").mines_count = 24
    /\ Round("u1").bet_amount = MaxBet
    /\ db["u1"] = InitialBalance - MaxBet

(***************************************************************************)
(* C6: a cashout on an Active round with k safe reveals succeeds, credits  *)
(* exactly floor(bet_amount * (1 + (k / (25 - mines_count)) * mines_count))*)
(* and leaves the round CashedOut.                                         *)
(***************************************************************************)
C6_CashoutPaysExactFloor ==
    [][(IsActive("u1") /\ Cashout("u1"))
       => (/\ resp'.code = 200
           /\ db'["u1"] = db["u1"]
                 + ExactPayout(Round("u1").bet_amount,
                               Len(Round("u1").revealed_positions),
                               Round("u1").mines_count)
           /\ Status(session'["u1"][1]) = "CashedOut")]_vars

(***************************************************************************)
(* C7 as stated: a reveal of a mine of the Active round sets the status to *)
(* Lost and leaves the balance unchanged, and while the round is Lost      *)
(* every reveal, of any position, and every cashout is rejected with       *)
(* "No active game".                                                       *)
(***************************************************************************)
MineRevealLoses ==
    \A position \in PositionInputs :
       (/\ IsActive("u1")
        /\ IsMine(Round("u1"), position)
        /\ RevealTile("u1", position))
       => (/\ Status(session'["u1"][1]) = "Lost"
           /\ db' = db)

IsLost(u) == HasRound(u) /\ Status(Round(u)) = "Lost"

C7_LostRejectsEveryRequest ==
    [][/\ resp'.op = "reveal" => MineRevealLoses
       /\ (IsLost("u1") /\ resp'.op \in {"reveal", "cashout"})
          => (/\ resp'.error = "No active game"
              /\ session' = session
              /\ db' = db)]_vars

(***************************************************************************)
(* C7 amended: a reveal of a mine of the Active round sets the status to   *)
(* Lost and leaves the balance unchanged, and while the round is Lost      *)
(* every cashout and every reveal of a position in 0..24 is rejected with  *)
(* "No active game", a reveal of a position off the grid with "Invalid     *)
(* position", and none of them changes the round or the balance.           *)
(***************************************************************************)
C7_LostRejectsGridRequests ==
    [][/\ resp'.op = "reveal" => MineRevealLoses
       /\ (IsLost("u1") /\ resp'.op \in {"reveal", "cashout"})
          => (/\ resp'.code = 400
              /\ session' = session
              /\ db' = db
              /\ resp'.op = "cashout" => resp'.error = "No active game"
              /\ \A position \in PositionInputs :
                    RevealTile("u1", position)
                    => resp'.error = IF position \in 0..24
                                     THEN "No active game"
                                     ELSE "Invalid position")]_vars

C7_Witness ==
    /\ IsLost("u1")
    /\ resp.op = "cashout"
    /\ resp.error = "No active game"
    /\ db["u1"] = InitialBalance - Round("u1").bet_amount

(***************************************************************************)
(* C8: once the round is terminal, no reveal and no cashout changes the    *)
(* round or the balance, and nothing is paid; the stored round changes     *)
(* only by an accepted start, which replaces it with a fresh round.        *)
(***************************************************************************)
C8_TerminalRoundImmutable ==
    [][IsTerminal("u1")
       => /\ resp'.op \in {"reveal", "cashout"}
             => (/\ session' = session
                 /\ db' = db
                 /\ resp'.code = 400
                 /\ resp'.winnings = 0)
          /\ session'["u1"] # session["u1"]
             => (/\ resp'.op = "start"
                 /\ resp'.code = 200
                 /\ session'["u1"][1].active
                 /\ session'["u1"][1].revealed_positions = <<>>)]_vars

C8_Witness ==
    /\ HasRound("u1")
    /\ Status(Round("u1")) = "CashedOut"
    /\ resp.op = "cashout"
    /\ resp.code = 400

(***************************************************************************)
(* C9 as stated: a reveal of a position already in revealed_positions is   *)
(* rejected with "Tile already revealed" and changes neither the round nor *)
(* the balance, whatever the status of the round.                          *)
(***************************************************************************)
C9_RevealedAlwaysAlreadyRevealed ==
    [][(HasRound("u1") /\ resp'.op = "reveal")
       => \A position \in PositionInputs :
             (/\ position \in Range(Round("u1").revealed_positions)
              /\ RevealTile("u1", position))
             => (/\ resp'.error = "Tile already revealed"
                 /\ session' = session
                 /\ db' = db)]_vars

(***************************************************************************)
(* C9 amended: a reveal of a position already in revealed_positions is     *)
(* always rejected and changes neither the round nor the balance; the      *)
(* rejection is "Tile already revealed" when the round is Active and       *)
(* "No active game" when it is terminal.                                   *)
(***************************************************************************)
C9_RevealedRejected ==
    [][(HasRound("u1") /\ resp'.op = "reveal")
       => \A position \in PositionInputs :
             (/\ position \in Range(Round("u1").revealed_positions)
              /\ RevealTile("u1", position))
             => (/\ resp'.code = 400
                 /\ resp'.error = IF Round("u1").active
                                  THEN "Tile already revealed"
                                  ELSE "No active game"
                 /\ session' = session
                 /\ db' = db)]_vars

C9_Witness ==
    /\ IsActive("u1")
    /\ Round("u1").revealed_positions # <<>>
    /\ resp.op = "reveal"
    /\ resp.error = "Tile already revealed"

(***************************************************************************)
(* C10: the safe reveal that makes the revealed count 25 - mines_count     *)
(* ends the round as WonByClear with multiplier exactly 1 + mines_count    *)
(* and credits exactly bet_amount * (1 + mines_count), after which the     *)
(* round is no longer active; with 24 mines that is bet_amount * 25.       *)
(***************************************************************************)
C10_ClearPaysFullMultiplier ==
    [][(IsActive("u1") /\ resp'.op = "reveal")
       => \A position \in PositionInputs :
             (/\ RevealError(session["u1"], position) = ""
              /\ ~IsMine(Round("u1"), position)
              /\ Len(Round("u1").revealed_positions) + 1
                    = 25 - Round("u1").mines_count
              /\ RevealTile("u1", position))
             => LET r   == session'["u1"][1]
                    pay == Round("u1").bet_amount
                             * (1 + Round("u1").mines_count)
                IN  /\ Status(r) = "WonByClear"
                    /\ r.multiplier = FloatOfInt(1 + r.mines_count)
                    /\ db'["u1"] = db["u1"] + pay
                    /\ resp'.won /\ resp'.winnings = pay
                    /\ NoActiveGame(session'["u1"])
                    /\ r.mines_count = 24
                       => db'["u1"] = db["u1"] + Round("u1").bet_amount * 25
          ]_vars

C10_Witness ==
    /\ HasRound("u1")
    /\ Status(Round("u1")) = "WonByClear"
    /\ Round("u1").mines_count = 24
    /\ Round("u1").bet_amount = MaxBet
    /\ resp.op = "reveal" /\ resp.won
    /\ resp.winnings = 25 * MaxBet
    /\ db["u1"] = InitialBalance - MaxBet + 25 * MaxBet

(***************************************************************************)
(* The three game requests together with /api/update_balance.              *)
(***************************************************************************)
AmountInputs == {-1, 0, 1}

UpdateBalanceRequest ==
    /\ \E amount \in AmountInputs : UpdateBalance("u1", amount)
    /\ UNCHANGED req

NextApi ==
    \/ Start
    \/ Reveal
    \/ CashoutRequest
    \/ UpdateBalanceRequest

SpecApi == Init /\ [][NextApi]_vars

(***************************************************************************)
(* One round of every mines count, played tile by tile.                    *)
(***************************************************************************)
RoundBets == (1..MaxBet) \cup {100}

\* the tiles asked for in a round: its lowest safe tile not yet revealed
\* and its lowest mine
RoundPositions(ses) ==
    IF ses = <<>> THEN {0}
    ELSE LET mines == Range(ses[1].mines_positions)
             fresh == (0..24) \ (mines \cup Range(ses[1].revealed_positions))
         IN  {Min(mines)} \cup (IF fresh = {} THEN {} ELSE {Min(fresh)})

RoundStart ==
    /\ session["u1"] = <<>>
    /\ \E bet_amount \in RoundBets, mines_count \in 1..24 :
          StartMinesGame("u1", bet_amount, mines_count)
    /\ UNCHANGED req

RoundReveal ==
    /\ \E position \in RoundPositions(session["u1"]) :
          RevealTile("u1", position)
    /\ UNCHANGED req

NextRound ==
    \/ RoundStart
    \/ RoundReveal
    \/ CashoutRequest

SpecRound == Init /\ [][NextRound]_vars

(***************************************************************************)
(* A user who is nearly out of money.                                      *)
(***************************************************************************)
InitLow ==
    /\ db \in [Users -> 0..MaxBet]
    /\ db["u2"] = 0
    /\ session = [u \in Users |-> <<>>]
    /\ resp = NoResponse
    /\ req = [p \in Procs |-> IdleRequest]

SpecLow == InitLow /\ [][Next]_vars

(***************************************************************************)
(* The game requests, reveals of tiles not yet revealed being weakly fair. *)
(***************************************************************************)
RevealFresh ==
    /\ IsActive("u1")
    /\ \E position \in PositionInputs :
          /\ RevealError(session["u1"], position) = ""
          /\ RevealTile("u1", position)
    /\ UNCHANGED req

SpecFair == Init /\ [][Next]_vars /\ WF_vars(RevealFresh)

(***************************************************************************)
(* Comparison of two floats, as Python's <= compares them.                 *)
(***************************************************************************)
FLeq(x, y) ==
    LET n      == Max({Len(x.fr), Len(y.fr)})
        xb(i)  == IF i <= Len(x.fr) THEN x.fr[i] ELSE 0
        yb(i)  == IF i <= Len(y.fr) THEN y.fr[i] ELSE 0
        differ == {i \in 1..n : xb(i) # yb(i)}
    IN  \/ x.ip < y.ip
        \/ /\ x.ip = y.ip
           /\ differ = {} \/ xb(Min(differ)) < yb(Min(differ))

(***************************************************************************)
(* C11: in every state of a round the stored multiplier is 1.0 while       *)
(* nothing is revealed and exactly 1 + mines_count when 25 - mines_count   *)
(* tiles are revealed, and no reveal or cashout of the round decreases it. *)
(***************************************************************************)
C11_MultiplierMonotone ==
    [][session'["u1"] # <<>>
       => LET r == session'["u1"][1] IN
          /\ r.revealed_positions = <<>> => r.multiplier = FloatOfInt(1)
          /\ AllRevealed(r) => r.multiplier = FloatOfInt(1 + r.mines_count)
          /\ (HasRound("u1") /\ resp'.op # "start")
             => FLeq(Round("u1").multiplier, r.multiplier)]_vars

C11_Witness ==
    /\ IsActive("u1")
    /\ Round("u1").mines_count = 1
    /\ Len(Round("u1").revealed_positions) = 23
    /\ resp.op = "reveal" /\ resp.code = 200

(***************************************************************************)
(* C12: a start is rejected with "Invalid mines count" unless mines_count  *)
(* is in 1..24, otherwise with "Invalid bet amount" unless bet_amount > 0, *)
(* otherwise with "Insufficient balance" unless the balance is at least    *)
(* bet_amount, and a rejected start changes neither the balance nor the    *)
(* stored round.                                                           *)
(***************************************************************************)
C12_StartRejections ==
    [][resp'.op = "start" =>
       \A bet_amount \in BetInputs, mines_count \in MinesInputs :
          StartMinesGame("u1", bet_amount, mines_count)
          => /\ resp'.error =
                   IF mines_count \notin 1..24 THEN "Invalid mines count"
                   ELSE IF ~(bet_amount > 0) THEN "Invalid bet amount"
                   ELSE IF ~(db["u1"] >= bet_amount)
                        THEN "Insufficient balance"
                   ELSE ""
             /\ resp'.code = IF resp'.error = "" THEN 200 ELSE 400
             /\ resp'.code = 400 => (db' = db /\ session' = session)]_vars

C12_Witness ==
    /\ IsActive("u1")
    /\ Round("u1").revealed_positions # <<>>
    /\ resp.op = "start"
    /\ resp.error = "Insufficient balance"
    /\ db["u1"] < InitialBalance + 1

(***************************************************************************)
(* C13: a cashout that directly follows the accepted start of a round pays *)
(* exactly bet_amount, and the balance is again what it was before the     *)
(* start.                                                                  *)
(***************************************************************************)
C13_StartCashoutRoundTrip ==
    [][(resp.op = "start" /\ resp.code = 200 /\ resp'.op = "cashout")
       => /\ resp'.code = 200
          /\ resp'.winnings = Round("u1").bet_amount
          /\ db'["u1"] = db["u1"] + Round("u1").bet_amount
          /\ db'["u1"] = InitialBalance]_vars

C13_Witness ==
    /\ HasRound("u1")
    /\ Status(Round("u1")) = "CashedOut"
    /\ Round("u1").revealed_positions = <<>>
    /\ Round("u1").mines_count = 24
    /\ Round("u1").bet_amount = MaxBet
    /\ resp.op = "cashout" /\ resp.winnings = MaxBet
    /\ db["u1"] = InitialBalance

(***************************************************************************)
(* C14: once a round is stored, the balance increases only by the payout   *)
(* of a clearing reveal or of a cashout of that round.                     *)
(***************************************************************************)
C14_OnlyPayoutsCredit ==
    [][(HasRound("u1") /\ db'["u1"] > db["u1"])
       => /\ IsActive("u1")
          /\ resp'.op \in {"reveal", "cashout"}
          /\ resp'.code = 200
          /\ db'["u1"] = db["u1"] + resp'.winnings]_vars

(***************************************************************************)
(* C15: every payout, of a clearing reveal or of a cashout, is             *)
(* floor(bet_amount * (safe + k * mines_count) / safe) in exact            *)
(* arithmetic, safe = 25 - mines_count, k the number of revealed tiles.    *)
(***************************************************************************)
C15_PayoutIsExactFloor ==
    [][(/\ resp'.code = 200
        /\ \/ resp'.op = "cashout"
           \/ resp'.op = "reveal" /\ resp'.won)
       => LET r == session'["u1"][1]
              exact == ExactPayout(r.bet_amount, Len(r.revealed_positions),
                                   r.mines_count)
          IN  /\ resp'.winnings = exact
              /\ db'["u1"] = db["u1"] + exact]_vars

(***************************************************************************)
(* C16: a reveal of a tile that is no mine, is not yet revealed and does   *)
(* not complete the grid leaves the round Active, appends the tile to      *)
(* revealed_positions, changes neither the balance nor the mines, the      *)
(* stake or the mines count, and reports potential_win =                   *)
(* floor(bet_amount * multiplier), the multiplier being                    *)
(* 1 + (k / (25 - mines_count)) * mines_count; with 5 mines, a stake of    *)
(* 100 and 4 tiles revealed the multiplier is 2.0 and potential_win 200.   *)
(***************************************************************************)
C16_SafeRevealFrame ==
    [][(IsActive("u1") /\ resp'.op = "reveal")
       => \A position \in RoundPositions(session["u1"]) :
             (/\ RevealError(session["u1"], position) = ""
              /\ ~IsMine(Round("u1"), position)
              /\ Len(Round("u1").revealed_positions) + 1
                    < 25 - Round("u1").mines_count
              /\ RevealTile("u1", position))
             => LET old == Round("u1")
                    new == session'["u1"][1]
                IN  /\ Status(new) = "Active"
                    /\ new.revealed_positions
                          = Append(old.revealed_positions, position)
                    /\ db' = db
                    /\ new.mines_positions = old.mines_positions
                    /\ new.bet_amount = old.bet_amount
                    /\ new.mines_count = old.mines_count
                    /\ resp'.winnings = 0
                    /\ resp'.potential_win
                          = ExactPayout(new.bet_amount,
                                        Len(new.revealed_positions),
                                        new.mines_count)
                    /\ (/\ new.mines_count = 5
                        /\ new.bet_amount = 100
                        /\ Len(new.revealed_positions) = 4)
                       => (/\ new.multiplier = FloatOfInt(2)
                           /\ resp'.potential_win = 200)]_vars

(***************************************************************************)
(* C17: in every state of a round revealed_positions holds pairwise        *)
(* distinct tiles of 0..24, none of them a mine, and at most               *)
(* 25 - mines_count of them; mines_positions, mines_count and bet_amount   *)
(* change only when an accepted start replaces the round.                  *)
(***************************************************************************)
C17_RoundWellFormed ==
    [][session'["u1"] # <<>>
       => LET r == session'["u1"][1] IN
          /\ Distinct(r.revealed_positions)
          /\ Range(r.revealed_positions) \subseteq 0..24
          /\ Range(r.revealed_positions) \cap Range(r.mines_positions) = {}
          /\ Len(r.revealed_positions) <= 25 - r.mines_count
          /\ (/\ HasRound("u1")
              /\ \/ r.mines_positions # Round("u1").mines_positions
                 \/ r.mines_count # Round("u1").mines_count
                 \/ r.bet_amount # Round("u1").bet_amount)
             => (resp'.op = "start" /\ resp'.code = 200)]_vars

C17_Witness ==
    /\ HasRound("u1")
    /\ Status(Round("u1")) = "Lost"
    /\ Round("u1").mines_count = 1
    /\ Len(Round("u1").revealed_positions) = 1
    /\ resp.op = "reveal" /\ resp.game_over

(***************************************************************************)
(* C18: a reveal of a position outside 0..24 is rejected with "Invalid     *)
(* position" whatever the stored round, also with none; a reveal of a      *)
(* position in 0..24, and a cashout, is rejected with "No active game"     *)
(* when no round is stored or the stored round is not Active; none of      *)
(* these rejections changes the round or the balance.                      *)
(***************************************************************************)
C18_RejectionsLeaveState ==
    [][/\ resp'.op = "reveal"
          => \A position \in PositionInputs :
                (/\ position \notin 0..24 \/ ~IsActive("u1")
                 /\ RevealTile("u1", position))
                => /\ resp'.code = 400
                   /\ resp'.error = IF position \notin 0..24
                                    THEN "Invalid position"
                                    ELSE "No active game"
                   /\ session' = session
                   /\ db' = db
       /\ (resp'.op = "cashout" /\ ~IsActive("u1"))
          => /\ resp'.code = 400
             /\ resp'.error = "No active game"
             /\ session' = session
             /\ db' = db]_vars

C18_Witness ==
    /\ ~HasRound("u1")
    /\ resp.op = "reveal"
    /\ resp.error = "Invalid position"

(***************************************************************************)
(* C19: with the start, reveal and cashout requests of a user handled one  *)
(* at a time from a non-negative balance, the balance is never negative.   *)
(***************************************************************************)
C19_BalanceNonNegative == \A u \in Users : db[u] >= 0

C19_Witness ==
    /\ db["u1"] = 0
    /\ IsActive("u1")
    /\ Round("u1").bet_amount = MaxBet
    /\ resp.op = "start" /\ resp.code = 200

(***************************************************************************)
(* C20: every accepted reveal on an Active round ends the round or makes   *)
(* revealed_positions one longer, never longer than 25 - mines_count; a    *)
(* started round stays the stored round while it is Active; and, reveals   *)
(* of tiles not yet revealed being weakly fair, an Active round leads to a *)
(* terminal one: every started round reaches Lost, WonByClear or           *)
(* CashedOut.                                                              *)
(***************************************************************************)
C20_EveryRoundTerminates ==
    /\ [][(IsActive("u1") /\ resp'.op = "reveal" /\ resp'.code = 200)
          => LET old == Round("u1")
                 new == session'["u1"][1]
             IN  /\ \/ ~new.active
                    \/ Len(new.revealed_positions)
                          = Len(old.revealed_positions) + 1
                 /\ Len(new.revealed_positions) <= 25 - new.mines_count]_vars
    /\ [][IsActive("u1")
          => LET old == Round("u1")
                 new == session'["u1"][1]
             IN  /\ new.mines_positions = old.mines_positions
                 /\ new.mines_count = old.mines_count
                 /\ new.bet_amount = old.bet_amount
                 /\ Len(new.revealed_positions) >= Len(old.revealed_positions)
                 /\ SubSeq(new.revealed_positions, 1,
                           Len(old.revealed_positions))
                       = old.revealed_positions]_vars
    /\ (IsActive("u1") ~> IsTerminal("u1"))

====
